---- MODULE Spec2Model ----
(***************************************************************************)
(* The chat endpoint of pages/api/chat.js (src/_app.js lines 40-83) with   *)
(* its collaborators: the identity verifier (utils/firebaseAdmin.js), the  *)
(* rate limiter (utils/rateLimiter.js), the upstream generation service    *)
(* reached with fetch, and the recorder (utils/firestoreUtils.js).         *)
(*                                                                         *)
(* A request occupies a slot and advances one await at a time; what an     *)
(* external service answers is an input of the step that resolves the      *)
(* await.  The handler keeps no state of its own between requests: they    *)
(* meet only in the limiter's store and in the 'chats' collection, and     *)
(* each of the two is touched in one step.  The model handles one request  *)
(* at a time (one slot); time may pass between any two of its steps.       *)
(***************************************************************************)
EXTENDS Integers, Sequences, FiniteSets, TLC

VARIABLES
  req,       \* per slot: the request being handled and how far its handler got
  chats,     \* the 'chats' collection of the document store
  rl,        \* the rate limiter's shared store: per key, the times of the calls counted
  now,       \* the clock, in seconds
  attempts,  \* history: per subject, the times its requests reached the limiter
  others,    \* history: per subject, when its latest request that was denied, or
             \* admitted and did not fail, reached the limiter (<<>>: none in the window)
  denied,    \* history: per subject, the time of its latest denial (-1: none)
  quotaSeen  \* history: per slot, whether the limiter answered its request when the
             \* subject's quota was used up by failed requests

vars == <<req, chats, rl, now, attempts, others, denied, quotaSeen>>

(***************************************************************************)
(* Bounds of the model.                                                    *)
(***************************************************************************)
MaxTime == 60
TickStep == 30
MaxChats == 1

(***************************************************************************)
(* Program constants: Ratelimit.slidingWindow(5, "60 s").                  *)
(***************************************************************************)
Limit == 5
WindowSec == 60

Slots == {"r1"}
Subjects == {"u1", "u2"}
Undefined == "undefined"

(***************************************************************************)
(* Inputs.  A header is the sequence of its space-separated words; <<>> is *)
(* an absent header.                                                       *)
(***************************************************************************)
Methods == {"POST", "GET"}
NoHeader == <<>>
AuthHeaders ==
  { NoHeader,
    <<"Bearer", "tok_u1">>,
    <<"Bearer", "tok_u2">>,
    <<"Bearer", "tok_expired">>,
    <<"tok_u1">> }
Messages == {"hello"}

(***************************************************************************)
(* JSON.  An object is the set of its <<key, value>> pairs; a text is a    *)
(* string.  JsonForms lists the texts the model uses with the object each  *)
(* parses to; the first text listed for an object is the one               *)
(* JSON.stringify produces.                                                *)
(***************************************************************************)
JsonForms ==
  << <<"{\"answer\":\"hi\"}", {<<"answer", "hi">>}>>,
     <<"{ \"answer\": \"hi\" }", {<<"answer", "hi">>}>>,
     <<"{\"answer\":\"hi\",\"conversation_id\":\"c1\"}",
       {<<"answer", "hi">>, <<"conversation_id", "c1">>}>>,
     <<"{\"code\":\"invalid_param\"}", {<<"code", "invalid_param">>}>>,
     <<"{\"error\":\"Method not allowed\"}", {<<"error", "Method not allowed">>}>>,
     <<"{\"error\":\"Rate limit exceeded\"}", {<<"error", "Rate limit exceeded">>}>>,
     <<"{\"error\":\"Internal server error\"}", {<<"error", "Internal server error">>}>> >>

JsonIndex == 1..Len(JsonForms)

Parsable(text) == \E i \in JsonIndex : JsonForms[i][1] = text

JsonParse(text) ==
  JsonForms[CHOOSE i \in JsonIndex : JsonForms[i][1] = text][2]

JsonStringify(obj) ==
  LET first == CHOOSE i \in JsonIndex :
                 /\ JsonForms[i][2] = obj
                 /\ \A j \in JsonIndex : JsonForms[j][2] = obj => i <= j
  IN  JsonForms[first][1]

Field(obj, key) ==
  IF \E p \in obj : p[1] = key
  THEN (CHOOSE p \in obj : p[1] = key)[2]
  ELSE Undefined

(***************************************************************************)
(* req.headers.authorization?.split('Bearer ')[1]: the text between the    *)
(* first "Bearer " and the next one (or the end).  <<>> stands for both    *)
(* undefined and the empty string; the verifier rejects either.            *)
(***************************************************************************)
ExtractToken(h) ==
  LET seps == {i \in 1..(Len(h) - 1) : h[i] = "Bearer"}
  IN  IF seps = {} THEN <<>>
      ELSE LET first == CHOOSE i \in seps : \A j \in seps : i <= j
               later == {j \in seps : j > first}
               stop  == IF later = {} THEN Len(h) + 1
                        ELSE CHOOSE j \in later : \A k \in later : j <= k
           IN  SubSeq(h, first + 1, stop - 1)

(***************************************************************************)
(* admin.auth().verifyIdToken(token): the uid of the token's claims, or    *)
(* Undefined when the provider rejects the token.                          *)
(***************************************************************************)
TokenSubject(token) ==
  CASE token = <<"tok_u1">> -> "u1"
    [] token = <<"tok_u2">> -> "u2"
    [] OTHER -> Undefined

(***************************************************************************)
(* The upstream generation service's answers to fetch.                     *)
(***************************************************************************)
UpstreamResponses ==
  { [status |-> 200, text |-> "{ \"answer\": \"hi\" }"],
    [status |-> 200, text |-> "{\"answer\":\"hi\",\"conversation_id\":\"c1\"}"],
    [status |-> 400, text |-> "{\"code\":\"invalid_param\"}"],
    [status |-> 502, text |-> "<html>Bad Gateway</html>"],
    [status |-> 200, text |-> ""] }
NoResponse == [status |-> 0, text |-> ""]

(***************************************************************************)
(* A slot with no request.                                                 *)
(***************************************************************************)
Idle ==
  [ pc |-> "idle", method |-> "", authorization |-> NoHeader, message |-> Undefined,
    token |-> <<>>, userId |-> Undefined, limiterRes |-> "none", limitAt |-> 0,
    response |-> NoResponse, difyData |-> {}, status |-> 0, body |-> "", sent |-> 0,
    verifyCalls |-> 0, limitCalls |-> 0, fetchCalls |-> 0, saveCalls |-> 0,
    writes |-> 0, threw |-> "none" ]

\* res.status(code).json(obj)
Respond(r, code, obj) ==
  [r EXCEPT !.pc = "done", !.status = code, !.body = JsonStringify(obj),
            !.sent = @ + 1]

\* The catch block of the handler.
Catch(r, stage) ==
  Respond([r EXCEPT !.threw = stage], 500, {<<"error", "Internal server error">>})

\* A faulty variant: the method is not checked; every request goes on to verification.
OnRequest_NoMethodCheck(method, authorization, message) ==
  [Idle EXCEPT !.method = method, !.authorization = authorization,
               !.message = message, !.token = ExtractToken(authorization),
               !.verifyCalls = 1, !.pc = "verify"]

\* The handler up to its first await.
OnRequest(method, authorization, message) ==
  LET r == [Idle EXCEPT !.method = method, !.authorization = authorization,
                        !.message = message]
  IN  IF method # "POST"
      THEN Respond(r, 405, {<<"error", "Method not allowed">>})
      ELSE [r EXCEPT !.token = ExtractToken(authorization), !.verifyCalls = 1,
                     !.pc = "verify"]

\* verifyIdToken resolved: userId = decodedToken.uid, then rateLimiter.limit(userId).
AfterVerify(r, uid) ==
  [r EXCEPT !.userId = uid, !.limitCalls = 1, !.pc = "limit"]

\* A faulty variant: every subject is counted under one key.
LimitKey_Shared(userId) == "u1"

\* The key the limiter is called with.
LimitKey(userId) == userId

\* A faulty variant: the 429 branch does not return; the handler goes on to the relay.
AfterLimit_NoReturn(r, success) ==
  [r EXCEPT !.limiterRes = IF success THEN "allowed" ELSE "denied",
            !.status = IF success THEN @ ELSE 429,
            !.sent = IF success THEN @ ELSE @ + 1,
            !.fetchCalls = 1, !.pc = "fetch"]

\* rateLimiter.limit resolved with limiterRes.success = success.
AfterLimit(r, success) ==
  IF ~success
  THEN Respond([r EXCEPT !.limiterRes = "denied"], 429,
               {<<"error", "Rate limit exceeded">>})
  ELSE [r EXCEPT !.limiterRes = "allowed", !.fetchCalls = 1, !.pc = "fetch"]

\* A faulty variant: fail-open; a limiter that cannot be reached counts as an admission.
OnLimiterThrow_FailOpen(r) ==
  [r EXCEPT !.threw = "limit", !.limiterRes = "allowed", !.fetchCalls = 1,
            !.pc = "fetch"]

\* rateLimiter.limit rejected: the store is unreachable.
OnLimiterThrow(r) == Catch(r, "limit")

\* difyResponse.json() resolved, then saveChatToFirestore(userId, message, difyData.answer).
AfterJson(r) ==
  IF Parsable(r.response.text)
  THEN [r EXCEPT !.difyData = JsonParse(r.response.text), !.saveCalls = 1,
                 !.pc = "save"]
  ELSE Catch(r, "json")

\* A faulty variant: the message and the response are stored in each other's field.
ExchangeRecord_Swapped(userId, message, response) ==
  [userId |-> userId, message |-> response, response |-> message,
   timestamp |-> "serverTimestamp()"]

\* The document addDoc is given; the store fills the timestamp in for the sentinel.
ExchangeRecord(userId, message, response) ==
  [userId |-> userId, message |-> message, response |-> response,
   timestamp |-> "serverTimestamp()"]

\* A faulty variant: the document is added twice.
AddDoc_Twice(collection, r) ==
  LET doc == ExchangeRecord(r.userId, r.message, Field(r.difyData, "answer"))
  IN  Append(Append(collection, doc), doc)

\* addDoc on the 'chats' collection.
AddDoc(collection, r) ==
  Append(collection, ExchangeRecord(r.userId, r.message, Field(r.difyData, "answer")))

\* A faulty variant: a failure of addDoc is not caught and reaches the handler's catch block.
AfterAddDoc_Propagates(r, ok) ==
  IF ok THEN Respond([r EXCEPT !.writes = @ + 1], 200, r.difyData)
  ELSE Catch(r, "addDoc")

\* saveChatToFirestore returned (it catches addDoc's failure), then the 200 response.
AfterAddDoc(r, ok) ==
  Respond([r EXCEPT !.writes = IF ok THEN @ + 1 ELSE @,
                    !.threw = IF ok THEN @ ELSE "addDoc"],
          200, r.difyData)

(***************************************************************************)
(* The rate limiter's store: a sliding window of WindowSec seconds with    *)
(* Limit calls per key.  Every call is counted, allowed or not; a call is  *)
(* allowed when fewer than Limit counted calls lie in the window.  The     *)
(* store keeps the latest Limit calls of a key, which decide the count.    *)
(***************************************************************************)
InWindow(times, t) == SelectSeq(times, LAMBDA x : x > t - WindowSec)

Latest(times) ==
  IF Len(times) > Limit THEN SubSeq(times, Len(times) - Limit + 1, Len(times))
  ELSE times

SlidingWindowAllows(times, t) == Len(InWindow(times, t)) < Limit

Consume(times, t) == Latest(Append(InWindow(times, t), t))

Expire(f, t) == [k \in DOMAIN f |-> InWindow(f[k], t)]

Noted(f, u, t) == [f EXCEPT ![u] = Latest(Append(@, t))]

(***************************************************************************)
(* The state after the module is loaded.                                   *)
(***************************************************************************)
Init ==
  /\ req = [s \in Slots |-> Idle]
  /\ chats = <<>>
  /\ rl = [u \in Subjects |-> <<>>]
  /\ now = 0
  /\ attempts = [u \in Subjects |-> <<>>]
  /\ others = [u \in Subjects |-> <<>>]
  /\ denied = [u \in Subjects |-> -1]
  /\ quotaSeen = [s \in Slots |-> FALSE]

\* A request arrives at a free slot (while the collection is below the model's bound).
Request(s) ==
  /\ req[s].pc \in {"idle", "done"}
  /\ Len(chats) < MaxChats
  /\ \E method \in Methods, authorization \in AuthHeaders, message \in Messages :
       req' = [req EXCEPT ![s] = OnRequest(method, authorization, message)]
  /\ UNCHANGED <<chats, rl, now>>

\* await verifyIdToken(token)
VerifyResolve(s) ==
  /\ req[s].pc = "verify"
  /\ \E providerUp \in BOOLEAN :
       LET uid == TokenSubject(req[s].token)
       IN  req' = [req EXCEPT ![s] = IF providerUp /\ uid # Undefined
                                     THEN AfterVerify(@, uid)
                                     ELSE Catch(@, "verify")]
  /\ UNCHANGED <<chats, rl, now>>

\* await rateLimiter.limit(userId)
LimitResolve(s) ==
  /\ req[s].pc = "limit"
  /\ \/ /\ req' = [req EXCEPT ![s] = OnLimiterThrow(@)]
        /\ UNCHANGED rl
     \/ LET k == LimitKey(req[s].userId)
            success == SlidingWindowAllows(rl[k], now)
        IN  /\ rl' = [rl EXCEPT ![k] = Consume(@, now)]
            /\ req' = [req EXCEPT ![s] = AfterLimit([@ EXCEPT !.limitAt = now], success)]
  /\ UNCHANGED <<chats, now>>

\* A faulty variant: a failed relay gives the subject its unit of quota back.
FetchReject_Refund(s) ==
  /\ req[s].pc = "fetch"
  /\ req' = [req EXCEPT ![s] = Catch(@, "fetch")]
  /\ rl' = [rl EXCEPT ![LimitKey(req[s].userId)] = SubSeq(@, 1, Len(@) - 1)]
  /\ UNCHANGED <<chats, now>>

\* await fetch(...): the call fails (network error, timeout).
FetchReject(s) ==
  /\ req[s].pc = "fetch"
  /\ req' = [req EXCEPT ![s] = Catch(@, "fetch")]
  /\ UNCHANGED <<chats, rl, now>>

\* await fetch(...): a response arrives, of any status.
FetchResolve(s) ==
  /\ req[s].pc = "fetch"
  /\ \E resp \in UpstreamResponses :
       req' = [req EXCEPT ![s] = [@ EXCEPT !.response = resp, !.pc = "json"]]
  /\ UNCHANGED <<chats, rl, now>>

\* await difyResponse.json()
JsonResolve(s) ==
  /\ req[s].pc = "json"
  /\ req' = [req EXCEPT ![s] = AfterJson(@)]
  /\ UNCHANGED <<chats, rl, now>>

\* await addDoc(...) inside saveChatToFirestore, then res.status(200).json(difyData)
AddDocResolve(s) ==
  /\ req[s].pc = "save"
  /\ \E ok \in BOOLEAN :
       /\ chats' = IF ok THEN AddDoc(chats, req[s]) ELSE chats
       /\ req' = [req EXCEPT ![s] = AfterAddDoc(@, ok)]
  /\ UNCHANGED <<rl, now>>

\* Time passes; calls older than the window leave the store.
Tick ==
  /\ now < MaxTime
  /\ now' = now + TickStep
  /\ rl' = Expire(rl, now')
  /\ UNCHANGED <<req, chats>>

(***************************************************************************)
(* History variables, recorded by observing the steps.  They are kept per  *)
(* subject (the uid of the verified token), whatever key the limiter is    *)
(* called with, and like the window they forget what is older than it.     *)
(***************************************************************************)
\* The limiter answered the request in slot s in this step.
Decided(s) == req[s].pc = "limit" /\ req'[s].limiterRes # "none"

\* The limiter denied the request in slot s in this step.
Denied(s) == Decided(s) /\ req'[s].limiterRes = "denied"

\* The request in slot s, admitted earlier, ends in this step.
Ended(s) ==
  /\ req[s].limiterRes = "allowed"
  /\ req[s].pc # "done"
  /\ req'[s].pc = "done"

\* It ends with its relay or its record write failed.
Failed(s) == Ended(s) /\ (req'[s].status = 500 \/ req'[s].threw = "addDoc")

\* The request in slot s is denied in this step, or it ends without a failure.
Other(s) == Denied(s) \/ (Ended(s) /\ ~Failed(s))

Done(s) == req[s].pc = "done"

\* How many of the times history h holds for subject u lie within the window.
InWindowCount(h, u) == Len(InWindow(h[u], now))

\* Limit requests of subject u reached the limiter within the window, and every
\* request of u that did so was admitted and has ended in a failure.
FailedQuota(u) ==
  /\ InWindowCount(attempts, u) >= Limit
  /\ InWindowCount(others, u) = 0
  /\ \A s \in Slots : req[s].userId = u /\ req[s].limiterRes = "allowed" => Done(s)

Recorded(h, when(_), at(_)) ==
  IF now' # now THEN Expire(h, now')
  ELSE IF \E s \in Slots : when(s)
       THEN LET s == CHOOSE x \in Slots : when(x)
            IN  Noted(h, req[s].userId, at(s))
       ELSE h

RecordAttempts == attempts' = Recorded(attempts, Decided, LAMBDA s : now)

RecordOthers ==
  LET h == Recorded(others, Other, LAMBDA s : req'[s].limitAt)
  IN  others' = [u \in Subjects |->
                   IF h[u] = <<>> THEN <<>> ELSE <<h[u][Len(h[u])]>>]

RecordDenied ==
  denied' = [u \in Subjects |->
               IF \E s \in Slots : Denied(s) /\ req[s].userId = u
               THEN now ELSE denied[u]]

RecordQuotaSeen ==
  quotaSeen' = [s \in Slots |->
                  IF Decided(s) THEN FailedQuota(req[s].userId)
                  ELSE IF Done(s) /\ ~Done(s)' THEN FALSE
                  ELSE quotaSeen[s]]

Observe == RecordAttempts /\ UNCHANGED <<others, denied, quotaSeen>>
ObserveWindow == RecordAttempts /\ RecordDenied /\ UNCHANGED <<others, quotaSeen>>
ObserveQuota ==
  RecordAttempts /\ RecordOthers /\ RecordQuotaSeen /\ UNCHANGED denied

Next ==
  \/ \E s \in Slots : Request(s) /\ Observe
  \/ \E s \in Slots : VerifyResolve(s) /\ Observe
  \/ \E s \in Slots : LimitResolve(s) /\ Observe
  \/ \E s \in Slots : FetchReject(s) /\ Observe
  \/ \E s \in Slots : FetchResolve(s) /\ Observe
  \/ \E s \in Slots : JsonResolve(s) /\ Observe
  \/ \E s \in Slots : AddDocResolve(s) /\ Observe
  \/ Tick /\ Observe

Spec == Init /\ [][Next]_vars

NextWindow ==
  \/ \E s \in Slots : Request(s) /\ ObserveWindow
  \/ \E s \in Slots : VerifyResolve(s) /\ ObserveWindow
  \/ \E s \in Slots : LimitResolve(s) /\ ObserveWindow
  \/ \E s \in Slots : FetchReject(s) /\ ObserveWindow
  \/ \E s \in Slots : FetchResolve(s) /\ ObserveWindow
  \/ \E s \in Slots : JsonResolve(s) /\ ObserveWindow
  \/ \E s \in Slots : AddDocResolve(s) /\ ObserveWindow
  \/ Tick /\ ObserveWindow

SpecWindow == Init /\ [][NextWindow]_vars

NextQuota ==
  \/ \E s \in Slots : Request(s) /\ ObserveQuota
  \/ \E s \in Slots : VerifyResolve(s) /\ ObserveQuota
  \/ \E s \in Slots : LimitResolve(s) /\ ObserveQuota
  \/ \E s \in Slots : FetchReject(s) /\ ObserveQuota
  \/ \E s \in Slots : FetchResolve(s) /\ ObserveQuota
  \/ \E s \in Slots : JsonResolve(s) /\ ObserveQuota
  \/ \E s \in Slots : AddDocResolve(s) /\ ObserveQuota
  \/ Tick /\ ObserveQuota

SpecQuota == Init /\ [][NextQuota]_vars

(***************************************************************************)
(* What a finished request shows.                                          *)
(***************************************************************************)
NoRelayNoRecord(r) == r.fetchCalls = 0 /\ r.saveCalls = 0 /\ r.writes = 0

GenericError(r) ==
  /\ r.status = 500
  /\ r.sent = 1
  /\ r.body = "{\"error\":\"Internal server error\"}"

\* The answer field of a JSON text, Undefined when the text has none.
AnswerOf(text) ==
  IF Parsable(text) THEN Field(JsonParse(text), "answer") ELSE Undefined

\* The upstream call of r failed: it threw, answered with a non-success status,
\* or answered with content that does not parse.
RelayFailed(r) ==
  \/ r.threw \in {"fetch", "json"}
  \/ r.response # NoResponse /\ r.response.status \notin 200..299

(***************************************************************************)
(* C1: a POST whose credential is missing, malformed, expired or otherwise *)
(* rejected by verifyIdToken is answered 401, with no rate-limiter call,   *)
(* no relay call and no record write.  The handler answers 500: the        *)
(* rejection lands in the one catch block.                                 *)
(***************************************************************************)
C1_UnauthenticatedIs401 ==
  \A s \in Slots :
    Done(s) /\ req[s].threw = "verify" =>
      /\ req[s].status = 401
      /\ req[s].limitCalls = 0
      /\ NoRelayNoRecord(req[s])

(***************************************************************************)
(* C2: a request the limiter denies is answered 429 and ends there: no     *)
(* relay call, no record write.                                            *)
(***************************************************************************)
C2_DeniedIs429 ==
  \A s \in Slots :
    req[s].limiterRes = "denied" =>
      /\ Done(s)
      /\ req[s].status = 429
      /\ req[s].sent = 1
      /\ NoRelayNoRecord(req[s])

C2_Witness ==
  \E s \in Slots :
    Done(s) /\ req[s].limiterRes = "denied" /\ req[s].method = "POST"

(***************************************************************************)
(* C3: a relay failure (the call throws, a non-success status, unparsable  *)
(* content) is answered 500 and saveChatToFirestore is not executed.  The  *)
(* handler never looks at the status: a non-success answer with a JSON     *)
(* body is recorded and answered 200.                                      *)
(***************************************************************************)
C3_RelayFailureIs500 ==
  \A s \in Slots :
    Done(s) /\ RelayFailed(req[s]) =>
      /\ req[s].status = 500
      /\ req[s].saveCalls = 0
      /\ req[s].writes = 0

(***************************************************************************)
(* C4: a record is written at most once per accepted request and never for *)
(* a rejected one: every step that changes the collection appends exactly  *)
(* one document, for a POST request that was verified and admitted and had *)
(* written nothing yet, and that request ends with the step.               *)
(***************************************************************************)
C4_WriteOncePerAccepted ==
  [][ chats' # chats =>
        \E s \in Slots :
          /\ req[s].pc = "save"
          /\ req[s].method = "POST"
          /\ req[s].userId \in Subjects
          /\ req[s].limiterRes = "allowed"
          /\ req[s].writes = 0
          /\ req'[s].pc = "done"
          /\ req'[s].writes = 1
          /\ Len(chats') = Len(chats) + 1
          /\ SubSeq(chats', 1, Len(chats)) = chats ]_vars

C4_Witness ==
  \E s \in Slots : Done(s) /\ req[s].writes = 1 /\ Len(chats) = 1

(***************************************************************************)
(* C5: when the relay succeeded and addDoc fails, the answer is still 200  *)
(* with the relay's result.                                                *)
(***************************************************************************)
C5_RecordFailureStill200 ==
  \A s \in Slots :
    Done(s) /\ req[s].threw = "addDoc" =>
      /\ req[s].status = 200
      /\ req[s].sent = 1
      /\ Parsable(req[s].body)
      /\ JsonParse(req[s].body) = JsonParse(req[s].response.text)

C5_Witness ==
  \E s \in Slots :
    /\ Done(s)
    /\ req[s].threw = "addDoc"
    /\ AnswerOf(req[s].body) = "hi"
    /\ chats = <<>>

(***************************************************************************)
(* C6: a request whose method is not POST is answered 405 before any       *)
(* collaborator is invoked: no verification, no limiter call, no relay     *)
(* call, no record write.                                                  *)
(***************************************************************************)
C6_NonPostIs405 ==
  \A s \in Slots :
    req[s].pc # "idle" /\ req[s].method # "POST" =>
      /\ Done(s)
      /\ req[s].status = 405
      /\ req[s].sent = 1
      /\ req[s].verifyCalls = 0
      /\ req[s].limitCalls = 0
      /\ NoRelayNoRecord(req[s])

C6_Witness ==
  \E s \in Slots :
    /\ Done(s)
    /\ req[s].method = "GET"
    /\ req[s].authorization = <<"Bearer", "tok_u1">>
    /\ req[s].status = 405

(***************************************************************************)
(* C7: with 5 requests per 60 seconds keyed by subject, a request that     *)
(* reaches the limiter when its subject already made 5 requests within the *)
(* window is denied with 429, and one that arrives when fewer than 5 of    *)
(* the subject's requests lie in the window (so, once the window has       *)
(* elapsed) is admitted; other subjects' requests do not count.            *)
(***************************************************************************)
C7_SlidingWindowPerSubject ==
  [][ \A s \in Slots :
        Decided(s) =>
          IF InWindowCount(attempts, req[s].userId) >= Limit
          THEN req'[s].limiterRes = "denied" /\ req'[s].status = 429
          ELSE req'[s].limiterRes = "allowed" ]_vars

\* A subject that was denied is admitted once the window has elapsed, while the
\* other subject is using the limiter too.
C7_Witness ==
  \E s \in Slots :
    LET u == req[s].userId
    IN  /\ req[s].limiterRes = "allowed"
        /\ u \in Subjects
        /\ denied[u] >= 0
        /\ req[s].limitAt >= denied[u] + WindowSec
        /\ \E v \in Subjects \ {u} : attempts[v] # <<>>

(***************************************************************************)
(* C8 as claimed: an admitted, authenticated POST with message m from      *)
(* subject u whose upstream answer is JSON with answer a is answered 200   *)
(* with a in the body, and exactly one record {u, m, a} is appended.       *)
(* It fails when addDoc fails: the answer is 200 and nothing is appended.  *)
(***************************************************************************)
C8_RoundTripAlwaysRecords ==
  \A s \in Slots :
    /\ Done(s)
    /\ req[s].limiterRes = "allowed"
    /\ AnswerOf(req[s].response.text) # Undefined
    => /\ req[s].status = 200
       /\ AnswerOf(req[s].body) = AnswerOf(req[s].response.text)
       /\ req[s].writes = 1

(***************************************************************************)
(* C8 amended: such a request is answered 200 with a in the body, and      *)
(* exactly one record {userId: u, message: m, response: a} is appended     *)
(* unless addDoc fails, in which case none is.                             *)
(***************************************************************************)
C8_RoundTrip ==
  [][ \A s \in Slots :
        LET a == AnswerOf(req[s].response.text)
        IN  /\ req[s].limiterRes = "allowed"
            /\ a # Undefined
            /\ req'[s] # req[s]
            => /\ req[s].pc = "json" => req'[s].pc = "save" /\ chats' = chats
               /\ req[s].pc = "save" =>
                    /\ Done(s)'
                    /\ req'[s].status = 200
                    /\ AnswerOf(req'[s].body) = a
                    /\ chats' = IF req'[s].threw = "addDoc" THEN chats
                                ELSE Append(chats,
                                       [userId |-> req[s].userId,
                                        message |-> req[s].message,
                                        response |-> a,
                                        timestamp |-> "serverTimestamp()"]) ]_vars

C8_Witness ==
  \E s \in Slots :
    /\ Done(s)
    /\ req[s].status = 200
    /\ req[s].userId = "u1"
    /\ req[s].message = "hello"
    /\ req[s].response.text = "{ \"answer\": \"hi\" }"
    /\ req[s].body = "{\"answer\":\"hi\"}"
    /\ chats = << [userId |-> "u1", message |-> "hello", response |-> "hi",
                   timestamp |-> "serverTimestamp()"] >>

(***************************************************************************)
(* C9: a request that reaches the limiter uses up one unit of its          *)
(* subject's quota whatever happens next: the unit is taken when the       *)
(* limiter answers, a relay or record failure does not give it back, and   *)
(* when 5 requests of a subject failed that way within the window the next *)
(* one is denied with 429.                                                 *)
(***************************************************************************)
C9_FailedRequestsUseQuota ==
  [][ \A s \in Slots :
        LET u == req[s].userId
        IN  /\ Decided(s) =>
                 /\ rl'[u] # <<>>
                 /\ rl'[u][Len(rl'[u])] = now
                 /\ FailedQuota(u) =>
                      req'[s].limiterRes = "denied" /\ req'[s].status = 429
            /\ Failed(s) => rl' = rl ]_vars

C9_Witness ==
  \E s \in Slots :
    LET u == req[s].userId
    IN  /\ Done(s)
        /\ req[s].status = 429
        /\ req[s].limiterRes = "denied"
        /\ quotaSeen[s]
        /\ u = "u1"
        /\ attempts["u2"] # <<>>

(***************************************************************************)
(* C10 as claimed: the rate gate is fail-closed, and an exception at any   *)
(* stage is caught at the top level and yields one generic 500.  It fails  *)
(* for the record stage: addDoc's failure is caught inside                 *)
(* saveChatToFirestore and the answer is 200.                              *)
(***************************************************************************)
C10_AnyExceptionIs500 ==
  \A s \in Slots :
    Done(s) /\ req[s].threw # "none" =>
      /\ GenericError(req[s])
      /\ req[s].threw = "limit" => NoRelayNoRecord(req[s])

(***************************************************************************)
(* C10 amended: the rate gate is fail-closed (a limiter call that throws   *)
(* gives the generic 500, no relay call and no record write), and an       *)
(* exception at any stage other than the record write is caught at the top *)
(* level and yields exactly one generic 500 response.                      *)
(***************************************************************************)
C10_FailClosed ==
  \A s \in Slots :
    /\ req[s].threw = "limit" =>
         Done(s) /\ GenericError(req[s]) /\ NoRelayNoRecord(req[s])
    /\ req[s].threw \in {"verify", "limit", "fetch", "json"} =>
         Done(s) /\ GenericError(req[s])

C10_Witness ==
  \E s \in Slots :
    Done(s) /\ req[s].threw = "limit" /\ req[s].userId = "u1" /\ req[s].status = 500

====
